---- MODULE Spec2Model ----
(***************************************************************************)
(* Model of the wallpaper crawler: main's loop over the selected scrapers, *)
(* the crawl loop run() of WallHereScraper, WallHavenScraper and           *)
(* WallpaperCatScraper, the retrying fetch_html and the streaming          *)
(* download_image (BaseScraper's and WallHaven's override).                *)
(*                                                                         *)
(* The remote site is the environment: every GET either fails with a       *)
(* requests.RequestException or answers with a body drawn from a bounded   *)
(* set of bodies.  Strings that the code computes on (image URLs, file     *)
(* names, base URLs, folder names) are sequences of one-character strings. *)
(*                                                                         *)
(* Spec is main with every setting explored; CallSpec calls one adapter    *)
(* function (get_wallpaper_links, get_image_url, the next-page lookup) on  *)
(* one page at a time; ScenarioSpec is WallHaven on the search for "anime" *)
(* with a quota of 3 against a site where everything succeeds.             *)
(***************************************************************************)
EXTENDS Integers, Sequences, FiniteSets, TLC

\* ------------------------------------------------------------------ bounds
MaxQuota == 2      \* largest "Max wallpapers" answer explored
MaxRetries == 3    \* largest retries setting explored
MaxPages == 2      \* listing pages the site can serve
MaxItems == 2      \* distinct items the site can list
MaxAnchors == 2    \* anchors on one listing page
MaxChunks == 2     \* chunks in one image body
MaxExcess == 2     \* characters by which a base name can exceed max_length

\* ------------------------------------------------------------------ strings
Illegal == {"\\", "/", "*", "?", ":", "\"", "<", ">", "|"}

\* index of the last occurrence of c in s, 0 when absent (str.rfind)
RFind(s, c) ==
    LET hits == {j \in 1..Len(s) : s[j] = c}
    IN IF hits = {} THEN 0 ELSE CHOOSE j \in hits : \A h \in hits : h <= j

\* index of the first occurrence of c in s, 0 when absent (str.find)
Find(s, c) ==
    LET hits == {j \in 1..Len(s) : s[j] = c}
    IN IF hits = {} THEN 0 ELSE CHOOSE j \in hits : \A h \in hits : j <= h

\* os.path.basename: what follows the last "/"
Basename(p) == SubSeq(p, RFind(p, "/") + 1, Len(p))

\* s.split('?')[0]: what precedes the first "?"
BeforeQuery(s) == IF Find(s, "?") = 0 THEN s ELSE SubSeq(s, 1, Find(s, "?") - 1)

\* re.sub(r'[\\/*?:"<>|]', "_", s)
Sanitize(s) == [j \in 1..Len(s) |-> IF s[j] \in Illegal THEN "_" ELSE s[j]]

\* os.path.splitext on a name without separators: the extension starts at the
\* last dot unless only dots precede it
SplitextAt(s) ==
    LET dot == RFind(s, ".")
    IN IF dot > 0 /\ \E j \in 1..(dot - 1) : s[j] # "." THEN dot ELSE Len(s) + 1

Ellipsis == <<".", ".", ".">>

\* BaseScraper._sanitize_and_shorten_filename
SanitizeAndShorten(filename, max_length) ==
    LET clean == Sanitize(filename)
        cut == SplitextAt(clean)
        name == SubSeq(clean, 1, cut - 1)
        ext == SubSeq(clean, cut, Len(clean))
    IN IF Len(name) > max_length
       THEN SubSeq(name, 1, max_length) \o Ellipsis \o ext
       ELSE name \o ext

DefaultMaxLength == 64

\* the file name download_image computes inside save_dir
Filename(site, img_url) ==
    IF site = "wallhaven"
    THEN Sanitize(BeforeQuery(Basename(img_url)))
    ELSE SanitizeAndShorten(BeforeQuery(Basename(img_url)), DefaultMaxLength)

\* ------------------------------------------------------------------ URLs
\* index of the first occurrence of the sequence sub in s, 0 when absent
IndexOf(s, sub) ==
    LET hits == {j \in 1..(Len(s) - Len(sub) + 1) : SubSeq(s, j, j + Len(sub) - 1) = sub}
    IN IF hits = {} THEN 0 ELSE CHOOSE j \in hits : \A h \in hits : j <= h

\* index of the first character of s that is in cs, Len(s) + 1 when there is none
FirstOf(s, cs) ==
    LET hits == {j \in 1..Len(s) : s[j] \in cs}
    IN IF hits = {} THEN Len(s) + 1 ELSE CHOOSE j \in hits : \A h \in hits : j <= h

\* urlparse: what follows "scheme://netloc"
AfterNetloc(url) ==
    LET start == IndexOf(url, <<":", "/", "/">>)
        rest == IF start = 0 THEN url ELSE SubSeq(url, start + 3, Len(url))
    IN IF start = 0 THEN rest ELSE SubSeq(rest, FirstOf(rest, {"/", "?", "#"}), Len(rest))

\* urlparse(url).path
UrlPath(url) ==
    LET rest == AfterNetloc(url)
    IN SubSeq(rest, 1, FirstOf(rest, {"?", "#"}) - 1)

\* urlparse(url).query
UrlQuery(url) ==
    LET rest == AfterNetloc(url)
        nofrag == SubSeq(rest, 1, FirstOf(rest, {"#"}) - 1)
    IN SubSeq(nofrag, FirstOf(nofrag, {"?"}) + 1, Len(nofrag))

\* s.split(c)
RECURSIVE Split(_, _)
Split(s, c) ==
    IF Find(s, c) = 0 THEN <<s>>
    ELSE <<SubSeq(s, 1, Find(s, c) - 1)>> \o Split(SubSeq(s, Find(s, c) + 1, Len(s)), c)

\* the percent escapes of the characters explored that quote() does not keep
Escapes ==
    {[ch |-> " ", code |-> <<"2", "0">>], [ch |-> ":", code |-> <<"3", "A">>],
     [ch |-> "?", code |-> <<"3", "F">>], [ch |-> "*", code |-> <<"2", "A">>],
     [ch |-> "+", code |-> <<"2", "B">>], [ch |-> "&", code |-> <<"2", "6">>],
     [ch |-> "=", code |-> <<"3", "D">>], [ch |-> "#", code |-> <<"2", "3">>]}

\* urllib.parse.quote(q): every character but letters, digits and "_.-~/" is escaped
RECURSIVE Quote(_)
Quote(q) ==
    IF q = <<>> THEN <<>>
    ELSE (IF \E e \in Escapes : e.ch = Head(q)
          THEN <<"%">> \o (CHOOSE e \in Escapes : e.ch = Head(q)).code
          ELSE <<Head(q)>>) \o Quote(Tail(q))

\* parse_qs decodes a name or a value: "+" is a space, "%XX" the character
RECURSIVE Unquote(_)
Unquote(s) ==
    IF s = <<>> THEN <<>>
    ELSE IF Head(s) = "+" THEN <<" ">> \o Unquote(Tail(s))
    ELSE IF Head(s) = "%" /\ Len(s) >= 3 /\ \E e \in Escapes : e.code = SubSeq(s, 2, 3)
    THEN <<(CHOOSE e \in Escapes : e.code = SubSeq(s, 2, 3)).ch>>
             \o Unquote(SubSeq(s, 4, Len(s)))
    ELSE <<Head(s)>> \o Unquote(Tail(s))

\* parse_qs(query).get(key, [None])[0]: the first non-blank value of key among the
\* "&"-separated fields that hold an "="; None is the empty sequence
QueryValue(query, key) ==
    LET fields == Split(query, "&")
        name(f) == Unquote(SubSeq(f, 1, Find(f, "=") - 1))
        value(f) == Unquote(SubSeq(f, Find(f, "=") + 1, Len(f)))
        hits == {n \in 1..Len(fields) :
                    /\ Find(fields[n], "=") > 0
                    /\ Len(fields[n]) > Find(fields[n], "=")
                    /\ name(fields[n]) = key}
    IN IF hits = {} THEN <<>>
       ELSE value(fields[CHOOSE n \in hits : \A h \in hits : n <= h])

\* s.strip(c)
RECURSIVE Strip(_, _)
Strip(s, c) ==
    IF s # <<>> /\ Head(s) = c THEN Strip(Tail(s), c)
    ELSE IF s # <<>> /\ s[Len(s)] = c THEN Strip(SubSeq(s, 1, Len(s) - 1), c)
    ELSE s

\* s.replace(sub, "")
RECURSIVE RemoveAll(_, _)
RemoveAll(s, sub) ==
    IF IndexOf(s, sub) = 0 THEN s
    ELSE SubSeq(s, 1, IndexOf(s, sub) - 1)
             \o RemoveAll(SubSeq(s, IndexOf(s, sub) + Len(sub), Len(s)), sub)

Legal(c) == c \notin Illegal

\* re.sub(r'[\\/*?:"<>|]', "", s)
RemoveIllegal(s) == SelectSeq(s, Legal)

WallpapersSuffix == <<"-", "w", "a", "l", "l", "p", "a", "p", "e", "r", "s">>
WallpapersDefault == <<"w", "a", "l", "l", "p", "a", "p", "e", "r", "s">>

\* the query run() hands to _get_save_path: the first q of the query string, or for
\* WallpaperCat the path without its slashes at the ends and without "-wallpapers"
RunQuery(s, url) ==
    IF s = "wallpapercat"
    THEN RemoveAll(Strip(UrlPath(url), "/"), WallpapersSuffix)
    ELSE QueryValue(UrlQuery(url), <<"q">>)

\* _get_save_path: the folder name
FolderName(s, url, query) ==
    IF query # <<>> THEN RemoveIllegal(query)
    ELSE LET segments == Split(Strip(UrlPath(url), "/"), "/")
             last == segments[Len(segments)]
             name == IF s = "wallpapercat" THEN RemoveAll(last, WallpapersSuffix) ELSE last
         IN IF name = <<>> THEN WallpapersDefault ELSE name

\* os.path.join("downloads", <site>, folder_name)
NoDir == [root |-> "", site |-> "", folder |-> <<>>]
GetSavePath(s, url, query) ==
    [root |-> "downloads", site |-> s, folder |-> FolderName(s, url, query)]

\* main's url_gen of each scraper
UrlGen(s, q) ==
    (CASE s = "wallhere" -> <<"h", "t", "t", "p", "s", ":", "/", "/", "w", "a", "l",
        "l", "h", "e", "r", "e", ".", "c", "o", "m", "/", "e", "n", "/", "w", "a", "l",
        "l", "p", "a", "p", "e", "r", "s", "?", "q", "=">>
       [] s = "wallhaven" -> <<"h", "t", "t", "p", "s", ":", "/", "/", "w", "a", "l",
        "l", "h", "a", "v", "e", "n", ".", "c", "c", "/", "s", "e", "a", "r", "c", "h",
        "?", "q", "=">>
       [] s = "wallpapercat" -> <<"h", "t", "t", "p", "s", ":", "/", "/", "w", "a",
        "l", "l", "p", "a", "p", "e", "r", "c", "a", "t", ".", "c", "o", "m", "/", "s",
        "e", "a", "r", "c", "h", "?", "t", "e", "r", "m", "=">>) \o Quote(q)

\* main: user_input.startswith("http") is taken as the URL, anything else as a query
BaseUrl(s, user_input) ==
    IF Len(user_input) >= 4 /\ SubSeq(user_input, 1, 4) = <<"h", "t", "t", "p">>
    THEN user_input
    ELSE UrlGen(s, user_input)

\* the answer explored for "Enter Search URL or Query"
DefaultQuery == <<"a", "n", "i", "m", "e">>

\* ------------------------------------------------------------------ site
Sites == <<"wallhere", "wallhaven", "wallpapercat">>

\* the image URLs the site serves, by item number
ImgUrl(j) ==
    CASE j = 1 -> <<"/", "w", "/", "a", ".", "j">>
      [] j = 2 -> <<"/", "w", "/", "b", ":", "1", ".", "p", "?", "k">>
      [] j = 3 -> <<"/", "w", "/">>
      [] OTHER -> <<"/", "w", "/", "a", ".", "j", "?", "v">>

Items == 1..MaxItems
ImgUrls == {ImgUrl(j) : j \in Items}
NoUrl == <<>>

\* the search of the scenario "WallHaven, anime": one listing page of five items,
\* each with an image of its own
ScenarioUrl ==
    <<"h", "t", "t", "p", "s", ":", "/", "/", "w", "a", "l", "l", "h", "a", "v", "e",
        "n", ".", "c", "c", "/", "s", "e", "a", "r", "c", "h", "?", "q", "=", "a", "n",
        "i", "m", "e">>
ScenarioItems == <<1, 2, 3, 4, 5>>
ScenarioImg(j) == <<"/", "w", "/", "s", <<"1", "2", "3", "4", "5">>[j], ".", "j">>
ScenarioImgs == {ScenarioImg(j) : j \in 1..Len(ScenarioItems)}

\* every file name a download can compute; the ones an earlier run can have left
NamesOf(urls) ==
    {Filename(s, u) : s \in {Sites[n] : n \in 1..Len(Sites)}, u \in urls} \ {<<>>}
FileNames == NamesOf(ImgUrls \cup ScenarioImgs)
OldFileNames == NamesOf(ImgUrls)

Pages == 1..MaxPages

\* an anchor of a listing page that the adapter's selector matches: the item it
\* points to and the form of its href (relative, absolute, or one urljoin rejects)
Hrefs == [id : Items, form : {"rel", "abs", "bad"}]

\* WallHaven's a.preview and WallpaperCat's div[data-fullimg] also match an
\* element whose attribute is missing or empty
AllHrefs == [id : Items, form : {"rel", "abs", "bad", "empty"}]

SeqsUpTo(S, n) == UNION {[1..m -> S] : m \in 0..n}

\* a "next page" anchor as a strategy of the adapter finds it
NoAnchor == [kind |-> "none", to |-> 0]
NextAnchors ==
    {NoAnchor, [kind |-> "nohref", to |-> 0], [kind |-> "bad", to |-> 0]}
        \cup {[kind |-> "href", to |-> p] : p \in Pages}

\* what the two next-page lookups of a page can find, in the order run() tries
\* them (WallHaven has a single lookup, the first)
NextPairs ==
    {<<a, NoAnchor>> : a \in NextAnchors}
        \cup {<<NoAnchor, a>> : a \in NextAnchors}
        \cup {<<[kind |-> "nohref", to |-> 0], [kind |-> "href", to |-> p]>> : p \in Pages}

\* what a lookup of a detail page finds: nothing, an element without the
\* attribute (or with an empty one), or an element that carries an image URL
NoTag == [kind |-> "none", url |-> NoUrl]
Tags(urls) ==
    {NoTag, [kind |-> "noattr", url |-> NoUrl]} \cup {[kind |-> "url",
        url |-> u] : u \in urls}

\* the first application/ld+json script of a detail page: none, one whose text
\* json.loads rejects, a JSON value without a top-level contentUrl, or an object
\* with one
JsonLds(urls) ==
    {NoTag, [kind |-> "malformed", url |-> NoUrl], [kind |-> "nofield", url |-> NoUrl]}
        \cup {[kind |-> "url", url |-> u] : u \in urls}

\* the detail pages of a site: the element get_image_url looks up first and, for
\* WallHere, the JSON-LD script it falls back to
DetailPagesOf(s, urls) ==
    [tag : Tags(urls), json_ld : IF s = "wallhere" THEN JsonLds(urls) ELSE {NoTag}]

\* an image URL whose path ends in "/": os.path.basename of it is empty
DirUrl == <<"/", "w", "/">>

DetailPages(s) == DetailPagesOf(s, ImgUrls \cup {DirUrl})

\* what fetch_html returns: None, the empty text of a 2xx answer without body, or
\* a text.  The content of a text is drawn where the code parses it.
None == "None"
EmptyText == "Empty"
Text == "Text"

\* Python truthiness of the value fetch_html returned
Truthy(html) == html = Text

\* ------------------------------------------------------------------ state
VARIABLES
    choice,            \* main: the menu answer, "1".."3" one scraper, "4" all
    scrapers_to_run,   \* main: the scrapers built from the answer, in order
    base_url,          \* self.base_url of each scraper
    max_wallpapers,    \* self.max_wallpapers of every scraper built
    retries,           \* self.retries of every scraper built
    i,                 \* main: position in scrapers_to_run
    pc,                \* where the control is
    downloaded_count,  \* self.downloaded_count of each scraper
    save_dir,          \* run: the folder _get_save_path returned
    current_page_url,  \* run: the page cursor
    page_html,         \* run: what fetch_html returned for the listing page
    wallpaper_links,   \* run: the links of the current page the for loop has
                       \*      not yielded yet
    img_url,           \* run: the resolved image URL of the current item
    next_link,         \* run: the anchor the next-page lookup returned
    caller,            \* fetch_html: called for a "listing" or a "detail" page
    attempt,           \* fetch_html: the loop variable
    result,            \* fetch_html: the value returned
    save_path,         \* download_image: the file name inside save_dir
    total,             \* download_image: chunks of the response body
    written,           \* download_image: chunks written so far
    ret,               \* download_image: the value returned
    disk,              \* the destination directory of each site
    trace,             \* observer: GETs and sleeps of the current fetch_html call
    outcome,           \* observer: DownloadOutcome of the last download_image call
    gap,               \* observer: what this session did last against the site
    reported,          \* observer: the count the session logged on completion
    fresh,             \* observer: images this session wrote to disk
    visited,           \* observer: the values the page cursor held this session
    ran,               \* observer: the scrapers whose run() main called, in order
    fn,                \* a single call of an adapter function: the function,
    arg,               \*     the page it is given
    out                \*     and what it returns

vars == <<choice, scrapers_to_run, base_url, max_wallpapers, retries, i, pc,
          downloaded_count, save_dir, current_page_url, page_html, wallpaper_links,
          img_url, next_link, caller, attempt, result, save_path, total, written, ret,
          disk, trace, outcome, gap, reported, fresh, visited, ran, fn, arg, out>>

config == <<choice, scrapers_to_run, base_url, max_wallpapers, retries>>
fetchVars == <<caller, attempt, result, trace>>
downloadVars == <<save_path, total, written, ret, outcome>>
pageVars == <<current_page_url, page_html, wallpaper_links, img_url>>
observers == <<gap, reported, fresh>>
callVars == <<fn, arg, out>>

SiteSet == {Sites[n] : n \in 1..Len(Sites)}
NotReported == 0 - 1

\* the scraper main is running
site == scrapers_to_run[i]
count == downloaded_count[i]

Quotas == NotReported..MaxQuota
RetrySettings == 0..MaxRetries
DefaultRetries == 3

\* the settings explored.  One scraper: main's (the default retries) with every
\* quota and every set of files a previous run left, and every retries setting
\* with a quota of 1.  All scrapers: main's with a quota of 1, on empty folders.
Settings(c) ==
    IF c = "4"
    THEN [quota : {1}, retries : {DefaultRetries}, old : {{}}]
    ELSE [quota : Quotas, retries : {DefaultRetries}, old : SUBSET OldFileNames]
             \cup [quota : {1}, retries : RetrySettings, old : {{}}]

\* nothing has run yet
Idle ==
    /\ i = 1
    /\ downloaded_count = [n \in 1..Len(scrapers_to_run) |-> 0]
    /\ save_dir = NoDir
    /\ current_page_url = 0
    /\ page_html = None
    /\ wallpaper_links = <<>>
    /\ img_url = NoUrl
    /\ next_link = NoAnchor
    /\ caller = "none"
    /\ attempt = 0
    /\ result = None
    /\ save_path = <<>>
    /\ total = 0
    /\ written = 0
    /\ ret = FALSE
    /\ trace = <<>>
    /\ outcome = "none"
    /\ gap = "first"
    /\ reported = NotReported
    /\ fresh = 0
    /\ visited = {}
    /\ ran = <<>>
    /\ fn = "none"
    /\ arg = <<>>
    /\ out = <<>>

\* main.py 60-84: the scrapers built from the answers
Init ==
    /\ choice \in {"1", "2", "3", "4"}
    /\ scrapers_to_run =
           IF choice = "4" THEN Sites
           ELSE <<Sites[CHOOSE n \in 1..3 : choice = <<"1", "2", "3">>[n]]>>
    /\ base_url = [n \in 1..Len(scrapers_to_run) |->
                       BaseUrl(scrapers_to_run[n], DefaultQuery)]
    /\ \E s \in Settings(choice) :
           /\ max_wallpapers = s.quota
           /\ retries = s.retries
           /\ disk = [d \in SiteSet |-> [f \in FileNames |->
                         IF f \in s.old THEN "old" ELSE "absent"]]
    /\ pc = "main"
    /\ Idle

\* ------------------------------------------------------------------ main
\* main.py 88-92: the for loop takes the next scraper and calls its run()
MainLoop ==
    /\ pc = "main"
    /\ IF i <= Len(scrapers_to_run)
       THEN /\ pc' = "run"
            /\ ran' = Append(ran, site)
       ELSE /\ pc' = "exit"
            /\ UNCHANGED ran
    /\ UNCHANGED <<config, i, downloaded_count, save_dir, pageVars, next_link,
                   fetchVars, downloadVars, disk, observers, visited, callVars>>

\* mutant of AfterRun: no try around scraper.run(), the exception leaves main
AfterRunPropagates(ended) == IF ended = "raised" THEN "exit" ELSE "main"

\* try: scraper.run() except Exception: logger.exception(...); the loop goes on
AfterRun(ended) == "main"

\* main.py 92-94: run() returned, or raised and the except clause logged it
MainNext ==
    /\ pc \in {"returned", "raised"}
    /\ i' = i + 1
    /\ pc' = AfterRun(pc)
    /\ save_dir' = NoDir
    /\ current_page_url' = 0
    /\ page_html' = None
    /\ wallpaper_links' = <<>>
    /\ img_url' = NoUrl
    /\ next_link' = NoAnchor
    /\ caller' = "none"
    /\ attempt' = 0
    /\ result' = None
    /\ trace' = <<>>
    /\ save_path' = <<>>
    /\ total' = 0
    /\ written' = 0
    /\ ret' = FALSE
    /\ outcome' = "none"
    /\ gap' = "first"
    /\ reported' = NotReported
    /\ fresh' = 0
    /\ visited' = {}
    /\ UNCHANGED <<config, downloaded_count, disk, ran, callVars>>

\* ------------------------------------------------------------------ fetch_html
\* mutant of MoreAttempts: one attempt too many
MoreAttemptsInclusive(a, r) == a <= r

\* range(self.retries): the loop body runs while attempt < retries
MoreAttempts(a, r) == a < r

\* mutant of Backoff: sleeps after the last attempt as well
BackoffAlways(a, r) == <<[ev |-> "sleep", n |-> 2 ^ a]>>

\* time.sleep(2 ** attempt) after a failed attempt, unless it was the last one
Backoff(a, r) == IF a < r - 1 THEN <<[ev |-> "sleep", n |-> 2 ^ a]>> ELSE <<>>

\* the call self.fetch_html(url)
CallFetch(who) ==
    /\ pc' = "fetch_html"
    /\ caller' = who
    /\ attempt' = 0
    /\ result' = None
    /\ trace' = <<>>

\* the caller took the returned value: the frame of fetch_html is gone
FetchReturned ==
    /\ caller' = "none"
    /\ attempt' = 0
    /\ result' = None
    /\ trace' = <<>>

\* what a GET can meet: a requests.RequestException, or a 2xx answer with or
\* without a body
Answers == {"fail", EmptyText, Text}

\* one iteration of the retry loop, or the return None that follows the loop
FetchAttemptWith(answers) ==
    /\ pc = "fetch_html"
    /\ IF MoreAttempts(attempt, retries)
       THEN /\ gap' = "net"
            /\ \E answer \in answers :
                   IF answer = "fail"
                   THEN /\ trace' = Append(trace, [ev |-> "fail", n |-> attempt])
                                        \o Backoff(attempt, retries)
                        /\ attempt' = attempt + 1
                        /\ UNCHANGED <<pc, result>>
                   ELSE /\ trace' = Append(trace, [ev |-> "ok", n |-> attempt])
                        /\ result' = answer
                        /\ pc' = "fetched"
                        /\ UNCHANGED attempt
       ELSE /\ result' = None
            /\ pc' = "fetched"
            /\ UNCHANGED <<attempt, trace, gap>>
    /\ UNCHANGED <<config, i, downloaded_count, save_dir, pageVars, next_link, caller,
                   downloadVars, disk, reported, fresh, visited, ran, callVars>>

FetchAttempt == FetchAttemptWith(Answers)

\* ------------------------------------------------------------------ adapters
\* urljoin(base, href) raises ValueError on an href it cannot split
UrljoinRaises(h) == h.form = "bad"

\* the absolute URL of an href: relative and absolute forms of one item agree
Urljoin(h) == h.id

\* get_wallpaper_links: the loop that appends each absolute URL not seen before;
\* an element without the attribute is passed over
RECURSIVE LinksFrom(_, _)
LinksFrom(anchors, links) ==
    IF anchors = <<>> THEN links
    ELSE IF Head(anchors).form = "empty" THEN LinksFrom(Tail(anchors), links)
    ELSE LET full_url == Urljoin(Head(anchors))
         IN LinksFrom(Tail(anchors),
                      IF \E n \in 1..Len(links) : links[n] = full_url
                      THEN links ELSE Append(links, full_url))

\* mutant of GetWallpaperLinks: every href is kept
GetWallpaperLinksNoDedup(anchors) ==
    LET kept == SelectSeq(anchors, LAMBDA h : h.form # "empty")
    IN [n \in 1..Len(kept) |-> Urljoin(kept[n])]

GetWallpaperLinks(anchors) == LinksFrom(anchors, <<>>)

\* get_wallpaper_links raises when urljoin rejects one of the hrefs it joins
LinksRaise(anchors) == \E n \in 1..Len(anchors) : UrljoinRaises(anchors[n])

\* mutant of GetImageUrl: no fallback to the JSON-LD script
GetImageUrlNoFallback(s, page) == IF page.tag.kind = "url" THEN page.tag.url ELSE NoUrl

\* get_image_url on a fetched detail page: WallHere reads the href of the
\* current-page-photo anchor and falls back to the contentUrl of the JSON-LD
\* script, WallHaven reads the src of img#wallpaper
GetImageUrl(s, page) ==
    IF page.tag.kind = "url" THEN page.tag.url
    ELSE IF s = "wallhere" /\ page.json_ld.kind = "url" THEN page.json_ld.url
    ELSE NoUrl

\* the next-page anchor run() uses: "first lookup or second lookup"
NextLink(s, pair) ==
    IF s = "wallhaven" THEN pair[1]
    ELSE IF pair[1] # NoAnchor THEN pair[1] ELSE pair[2]

\* ------------------------------------------------------------------ run
\* run(): _get_save_path names the folder and creates it (os.makedirs can raise),
\* and the cursor starts at base_url
RunStartWith(outcomes) ==
    /\ pc = "run"
    /\ \E made \in outcomes :
           IF made
           THEN /\ save_dir' = GetSavePath(site, base_url[i], RunQuery(site, base_url[i]))
                /\ current_page_url' = 1
                /\ visited' = {1}
                /\ pc' = "while"
           ELSE /\ pc' = "raised"
                /\ UNCHANGED <<save_dir, current_page_url, visited>>
    /\ UNCHANGED <<config, i, downloaded_count, page_html, wallpaper_links, img_url,
                   next_link, fetchVars, downloadVars, disk, observers, ran, callVars>>

RunStart == RunStartWith(BOOLEAN)

\* mutant of BelowQuota: the loop goes on with the quota just reached
BelowQuotaInclusive(c, m) == c <= m

\* while self.downloaded_count < self.max_wallpapers
BelowQuota(c, m) == c < m

While ==
    /\ pc = "while"
    /\ IF BelowQuota(count, max_wallpapers)
       THEN CallFetch("listing")
       ELSE /\ pc' = "complete"
            /\ UNCHANGED fetchVars
    /\ next_link' = NoAnchor      \* dead until the next lookup assigns it
    /\ UNCHANGED <<config, i, downloaded_count, save_dir, pageVars, downloadVars, disk,
                   observers, visited, ran, callVars>>

\* mutant of AfterListing: an empty page is handed to the for loop, and so to the
\* next-page lookup
AfterListingNoBreak(links) == "for"

\* if not wallpaper_links: break
AfterListing(links) == IF links = <<>> THEN "complete" ELSE "for"

\* page_html = fetch_html(...); the two breaks; wallpaper_links = get_wallpaper_links
ListingFetchedWith(listings) ==
    /\ pc = "fetched"
    /\ caller = "listing"
    /\ page_html' = result
    /\ IF ~Truthy(result)
       THEN /\ pc' = "complete"
            /\ UNCHANGED wallpaper_links
       ELSE \E anchors \in listings :
                IF LinksRaise(anchors)
                THEN /\ pc' = "raised"
                     /\ UNCHANGED wallpaper_links
                ELSE /\ wallpaper_links' = GetWallpaperLinks(anchors)
                     /\ pc' = AfterListing(wallpaper_links')
    /\ FetchReturned
    /\ UNCHANGED <<config, i, downloaded_count, save_dir, current_page_url, img_url,
                   next_link, downloadVars, disk, observers, visited, ran, callVars>>

ListingFetched == ListingFetchedWith(SeqsUpTo(Hrefs, MaxAnchors))

\* mutant of QuotaReached: the for loop never looks at the quota
QuotaReachedIgnored(c, m) == FALSE

\* if self.downloaded_count >= self.max_wallpapers: break
QuotaReached(c, m) == c >= m

\* the head of the for loop and the resolution of the item it yields
ForLoop ==
    /\ pc = "for"
    /\ IF wallpaper_links = <<>> \/ QuotaReached(count, max_wallpapers)
       THEN /\ pc' = "paginate"
            /\ UNCHANGED <<wallpaper_links, img_url, fetchVars>>
       ELSE /\ wallpaper_links' = Tail(wallpaper_links)
            /\ IF site = "wallpapercat"
               THEN /\ img_url' = ImgUrl(Head(wallpaper_links))
                    /\ pc' = "delay1"
                    /\ UNCHANGED fetchVars
               ELSE /\ CallFetch("detail")
                    /\ UNCHANGED img_url
    /\ UNCHANGED <<config, i, downloaded_count, save_dir, current_page_url, page_html,
                   next_link, downloadVars, disk, observers, visited, ran, callVars>>

\* mutant of AfterDetail: an item without image URL ends the crawl
AfterDetailBreaks(url) == IF url # NoUrl THEN "delay1" ELSE "complete"

\* mutant of AfterDetail: download_image is called whatever get_image_url returned
AfterDetailAlways(url) == "delay1"

\* if img_url: (delay, download_image); the delay that ends the loop body
AfterDetail(url) == IF url # NoUrl THEN "delay1" ELSE "delay2"

\* get_image_url after its fetch_html, and run's "if img_url"
DetailFetchedWith(pages) ==
    /\ pc = "fetched"
    /\ caller = "detail"
    /\ IF ~Truthy(result)
       THEN img_url' = NoUrl
       ELSE \E found \in {GetImageUrl(site, page) : page \in pages} : img_url' = found
    /\ pc' = AfterDetail(img_url')
    /\ FetchReturned
    /\ UNCHANGED <<config, i, downloaded_count, save_dir, current_page_url, page_html,
                   wallpaper_links, next_link, downloadVars, disk, observers, visited,
                   ran, callVars>>

DetailFetched == DetailFetchedWith(DetailPages(site))

\* self._polite_delay() before download_image
DelayBeforeDownload ==
    /\ pc = "delay1"
    /\ gap' = "delay"
    /\ pc' = "download"
    /\ UNCHANGED <<config, i, downloaded_count, save_dir, pageVars, next_link, fetchVars,
                   downloadVars, disk, reported, fresh, visited, ran, callVars>>

\* self._polite_delay() that ends the loop body
DelayAfterItem ==
    /\ pc = "delay2"
    /\ gap' = "delay"
    /\ pc' = "for"
    /\ img_url' = NoUrl      \* dead until the next iteration assigns it
    /\ UNCHANGED <<config, i, downloaded_count, save_dir, current_page_url, page_html,
                   wallpaper_links, next_link, fetchVars, downloadVars, disk, reported,
                   fresh, visited, ran, callVars>>

\* ------------------------------------------------------------------ download_image
\* mutant of Exists: the existence test always answers no
ExistsNever(dir, f) == FALSE

\* os.path.exists(save_path): an empty file name makes save_path the folder itself
Exists(dir, f) == f = <<>> \/ dir[f] # "absent"

\* mutant of Cleanup: the partial file is left behind
CleanupNothing(d, s, f) == d

\* mutant of Cleanup: the whole folder is emptied
CleanupFolder(d, s, f) == [d EXCEPT ![s] = [g \in DOMAIN d[s] |-> "absent"]]

\* the except clause: if os.path.exists(save_path): os.remove(save_path)
Cleanup(d, s, f) ==
    IF Exists(d[s], f) /\ f # <<>> THEN [d EXCEPT ![s][f] = "absent"] ELSE d

\* mutant of SkipReturns: a skip is reported like a failure
SkipReturnsFalse == FALSE

\* what download_image returns when the file is already there
SkipReturns == TRUE

\* the file name, and the early return when the file exists
DownloadCheck ==
    /\ pc = "download"
    /\ LET f == Filename(site, img_url)
       IN IF Exists(disk[site], f)
          THEN /\ ret' = SkipReturns
               /\ outcome' = "Skipped"
               /\ pc' = "downloaded"
               /\ UNCHANGED save_path
          ELSE /\ save_path' = f
               /\ pc' = "dl_get"
               /\ UNCHANGED <<ret, outcome>>
    /\ UNCHANGED <<config, i, downloaded_count, save_dir, pageVars, next_link, fetchVars,
                   total, written, disk, observers, visited, ran, callVars>>

\* what a file holds: every chunk of the body, or only a part of it
FileState(w, t) == IF w = t THEN "complete" ELSE "partial"

\* mutant of DownloadFails: the GET is tried again
DownloadFailsRetries ==
    /\ disk' = Cleanup(disk, site, save_path)
    /\ pc' = "dl_get"
    /\ UNCHANGED <<save_path, total, written, ret, outcome>>

\* download_image fails: the except clause cleans up and returns False
DownloadFails ==
    /\ disk' = Cleanup(disk, site, save_path)
    /\ ret' = FALSE
    /\ outcome' = "Failed"
    /\ pc' = "downloaded"
    /\ UNCHANGED <<save_path, total, written>>

\* the streamed GET, raise_for_status, the content-length header and open(.., 'wb')
DownloadGetWith(fails) ==
    /\ pc = "dl_get"
    /\ gap' = "net"
    /\ \/ fails /\ DownloadFails
       \/ \E n \in 0..MaxChunks :
              /\ disk' = [disk EXCEPT ![site][save_path] = FileState(0, n)]
              /\ total' = n
              /\ written' = 0
              /\ pc' = "dl_stream"
              /\ UNCHANGED <<save_path, ret, outcome>>
    /\ UNCHANGED <<config, i, downloaded_count, save_dir, pageVars, next_link, fetchVars,
                   reported, fresh, visited, ran, callVars>>

DownloadGet == DownloadGetWith(TRUE)

\* one chunk of iter_content written, an error while streaming, or the end of
\* the with block and the return True
DownloadChunkWith(fails) ==
    /\ pc = "dl_stream"
    /\ \/ /\ written < total
          /\ written' = written + 1
          /\ disk' = [disk EXCEPT ![site][save_path] = FileState(written', total)]
          /\ UNCHANGED <<pc, save_path, total, ret, outcome>>
       \/ fails /\ DownloadFails
       \/ /\ written = total
          /\ ret' = TRUE
          /\ outcome' = "Success"
          /\ pc' = "downloaded"
          /\ UNCHANGED <<save_path, total, written, disk>>
    /\ fresh' = IF outcome' = "Success" THEN fresh + 1 ELSE fresh
    /\ UNCHANGED <<config, i, downloaded_count, save_dir, pageVars, next_link, fetchVars,
                   gap, reported, visited, ran, callVars>>

DownloadChunk == DownloadChunkWith(TRUE)

\* mutant of Downloaded: the count grows whatever download_image returned
DownloadedAlwaysCounts ==
    /\ pc = "downloaded"
    /\ downloaded_count' = [downloaded_count EXCEPT ![i] = @ + 1]
    /\ pc' = "delay2"
    /\ save_path' = <<>>
    /\ total' = 0
    /\ written' = 0
    /\ ret' = FALSE
    /\ outcome' = "none"
    /\ UNCHANGED <<config, i, save_dir, pageVars, next_link, fetchVars, disk, observers,
                   visited, ran, callVars>>

\* if self.download_image(img_url, save_dir): self.downloaded_count += 1
Downloaded ==
    /\ pc = "downloaded"
    /\ downloaded_count' =
           IF ret THEN [downloaded_count EXCEPT ![i] = @ + 1] ELSE downloaded_count
    /\ pc' = "delay2"
    /\ save_path' = <<>>
    /\ total' = 0
    /\ written' = 0
    /\ ret' = FALSE
    /\ outcome' = "none"
    /\ UNCHANGED <<config, i, save_dir, pageVars, next_link, fetchVars, disk, observers,
                   visited, ran, callVars>>

\* ------------------------------------------------------------------ pagination
\* the next-page lookup on page_html, the cursor update, or the break
PaginateWith(pairs) ==
    /\ pc = "paginate"
    /\ \E pair \in pairs :
           /\ next_link' = NextLink(site, pair)
           /\ IF next_link'.kind = "href"
              THEN /\ current_page_url' = next_link'.to
                   /\ visited' = visited \cup {next_link'.to}
                   /\ pc' = "while"
              ELSE /\ pc' = IF next_link'.kind = "bad" THEN "raised" ELSE "complete"
                   /\ UNCHANGED <<current_page_url, visited>>
    /\ UNCHANGED <<config, i, downloaded_count, save_dir, page_html, wallpaper_links,
                   img_url, fetchVars, downloadVars, disk, observers, ran, callVars>>

Paginate == PaginateWith(NextPairs)

\* logger.info("Scraping complete. Downloaded N wallpapers.") and the return
Complete ==
    /\ pc = "complete"
    /\ reported' = count
    /\ next_link' = NoAnchor
    /\ pc' = "returned"
    /\ UNCHANGED <<config, i, downloaded_count, save_dir, pageVars, fetchVars,
                   downloadVars, disk, gap, fresh, visited, ran, callVars>>

Next ==
    \/ MainLoop
    \/ MainNext
    \/ RunStart
    \/ While
    \/ FetchAttempt
    \/ ListingFetched
    \/ ForLoop
    \/ DetailFetched
    \/ DelayBeforeDownload
    \/ DownloadCheck
    \/ DownloadGet
    \/ DownloadChunk
    \/ Downloaded
    \/ DelayAfterItem
    \/ Paginate
    \/ Complete

Spec == Init /\ [][Next]_vars

\* run() is sequential code: a step that can be taken is taken
FairSpec == Spec /\ WF_vars(Next)

\* ------------------------------------------------------------------ single calls
\* everything but pc and the call under observation
crawlVars == <<config, i, downloaded_count, save_dir, pageVars, next_link, fetchVars,
               downloadVars, disk, observers, visited, ran>>

\* a scraper is built and one of its adapter functions is called on a page
CallInit ==
    /\ choice \in {"1", "2", "3"}
    /\ scrapers_to_run = <<Sites[CHOOSE n \in 1..3 : choice = <<"1", "2", "3">>[n]]>>
    /\ base_url = <<BaseUrl(scrapers_to_run[1], DefaultQuery)>>
    /\ max_wallpapers = 1
    /\ retries = DefaultRetries
    /\ disk = [d \in SiteSet |-> [f \in FileNames |-> "absent"]]
    /\ pc = "call"
    /\ Idle

\* the elements the selector of get_wallpaper_links can match on a page: WallHere's
\* pattern needs an href, the others match elements without the attribute too
ListingsOf(s) == SeqsUpTo(IF s = "wallhere" THEN Hrefs ELSE AllHrefs, MaxAnchors + 1)

CallGetWallpaperLinks ==
    /\ pc = "call"
    /\ \E anchors \in ListingsOf(site) :
           /\ fn' = "get_wallpaper_links"
           /\ arg' = anchors
           /\ IF LinksRaise(anchors)
              THEN pc' = "raised" /\ out' = <<>>
              ELSE pc' = "called" /\ out' = GetWallpaperLinks(anchors)
    /\ UNCHANGED crawlVars

\* the part of get_image_url that follows a successful fetch_html
CallGetImageUrl ==
    /\ pc = "call"
    /\ site # "wallpapercat"
    /\ \E page \in DetailPages(site) :
           /\ fn' = "get_image_url"
           /\ arg' = page
           /\ out' = GetImageUrl(site, page)
    /\ pc' = "called"
    /\ UNCHANGED crawlVars

\* the next-page lookup of run()
CallNextLink ==
    /\ pc = "call"
    /\ \E pair \in NextPairs :
           /\ fn' = "next_link"
           /\ arg' = pair
           /\ out' = NextLink(site, pair)
    /\ pc' = "called"
    /\ UNCHANGED crawlVars

\* a base name of n characters that starts with c
Stem(c, n) == [j \in 1..n |-> IF j = 1 THEN c ELSE "a"]

\* image URLs whose base name is about max_length long: with a legal or an illegal
\* first character, without extension, with one or with two, with or without query
NameUrls ==
    {<<"/", "w", "/">> \o Stem(c, n) \o ext \o query :
        c \in {"a", ":"},
        n \in (DefaultMaxLength - 1)..(DefaultMaxLength + MaxExcess),
        ext \in {<<>>, <<".", "j">>, <<".", "t", ".", "g">>},
        query \in {<<>>, <<"?", "k">>}}

\* the first lines of download_image: the file name computed from the image URL
CallFilename ==
    /\ pc = "call"
    /\ \E url \in NameUrls :
           /\ fn' = "filename"
           /\ arg' = url
           /\ out' = Filename(site, url)
    /\ pc' = "called"
    /\ UNCHANGED crawlVars

\* answers to "Enter Search URL or Query": bare queries (plain, with a space, with an
\* illegal character) and pasted URLs (a slug without query string, a search URL)
UserInputs ==
    {DefaultQuery, <<"a", " ", "b">>, <<"x", ":", "y">>,
     <<"h", "t", "t", "p", "s", ":", "/", "/", "w", "a", "l", "l", "p", "a", "p",
      "e", "r", "c", "a", "t", ".", "c", "o", "m", "/", "n", "a", "r", "u", "t",
      "o", "-", "w", "a", "l", "l", "p", "a", "p", "e", "r", "s">>,
     ScenarioUrl}

\* main builds the start URL; run derives the query and asks _get_save_path
CallGetSavePath ==
    /\ pc = "call"
    /\ \E user_input \in UserInputs :
           LET url == BaseUrl(site, user_input)
           IN /\ fn' = "get_save_path"
              /\ arg' = url
              /\ out' = GetSavePath(site, url, RunQuery(site, url))
    /\ pc' = "called"
    /\ UNCHANGED crawlVars

\* the call is over; the next one is given a page of its own
CallReturn ==
    /\ pc \in {"called", "raised"}
    /\ fn' = "none"
    /\ arg' = <<>>
    /\ out' = <<>>
    /\ pc' = "call"
    /\ UNCHANGED crawlVars

CallNext ==
    \/ CallGetWallpaperLinks
    \/ CallGetImageUrl
    \/ CallNextLink
    \/ CallFilename
    \/ CallGetSavePath
    \/ CallReturn

CallSpec == CallInit /\ [][CallNext]_vars

\* ------------------------------------------------------------------ scenario
\* WallHaven is given the search URL with a quota of 3 and an empty folder, whatever
\* its retries setting
ScenarioInit ==
    /\ choice = "2"
    /\ scrapers_to_run = <<"wallhaven">>
    /\ base_url = <<BaseUrl("wallhaven", ScenarioUrl)>>
    /\ max_wallpapers = 3
    /\ retries \in 1..MaxRetries
    /\ disk = [d \in SiteSet |-> [f \in FileNames |-> "absent"]]
    /\ pc = "main"
    /\ Idle

\* every fetch succeeds: a GET can fail only while a retry is left
ScenarioAnswers == IF attempt < retries - 1 THEN {"fail", Text} ELSE {Text}

\* the listing page: the five items, each href relative or absolute
ScenarioListings ==
    {[n \in 1..Len(ScenarioItems) |-> [id |-> ScenarioItems[n], form |-> f[n]]] :
        f \in [1..Len(ScenarioItems) -> {"rel", "abs"}]}

\* the item whose detail page is being resolved: the last one the for loop took
ScenarioItem == ScenarioItems[Len(ScenarioItems) - Len(wallpaper_links)]

\* its detail page carries img#wallpaper with the image of the item
ScenarioDetailPages ==
    {[tag |-> [kind |-> "url", url |-> ScenarioImg(ScenarioItem)], json_ld |-> NoTag]}

\* the listing page carries a next-page link, to page 2
ScenarioPairs == {<<[kind |-> "href", to |-> 2], a>> : a \in NextAnchors}

ScenarioNext ==
    \/ MainLoop
    \/ MainNext
    \/ RunStartWith({TRUE})
    \/ While
    \/ FetchAttemptWith(ScenarioAnswers)
    \/ ListingFetchedWith(ScenarioListings)
    \/ ForLoop
    \/ DetailFetchedWith(ScenarioDetailPages)
    \/ DelayBeforeDownload
    \/ DownloadCheck
    \/ DownloadGetWith(FALSE)
    \/ DownloadChunkWith(FALSE)
    \/ Downloaded
    \/ DelayAfterItem
    \/ PaginateWith(ScenarioPairs)
    \/ Complete

ScenarioSpec == ScenarioInit /\ [][ScenarioNext]_vars

\* ------------------------------------------------------------------ claims
\* a GET is about to be issued: an iteration of the retry loop, or the image GET
AboutToGet == (pc = "fetch_html" /\ attempt < retries) \/ pc = "dl_get"

\* a network operation is about to start: the first GET of a page fetch, or the
\* image GET
AboutToStartOp == (pc = "fetch_html" /\ attempt = 0 /\ retries > 0) \/ pc = "dl_get"

\* a download_image call is in progress
Downloading == pc \in {"download", "dl_get", "dl_stream"}

\* C1: every crawl session terminates whatever the site answers, so main
\* eventually leaves its loop over the scrapers.
C1_Terminates == <>(pc = "exit")

\* C2: once downloaded_count >= quota no network request is issued by the session:
\* every GET is issued in a state where downloaded_count is below the quota.
C2_NoRequestAfterQuota == AboutToGet => count < max_wallpapers

C2_Witness ==
    /\ pc = "for"
    /\ max_wallpapers > 0
    /\ count >= max_wallpapers
    /\ wallpaper_links # <<>>
    /\ current_page_url = 2

\* C3: with a positive quota 0 <= downloaded_count <= quota in every state, and
\* downloaded_count changes only by +1, only for the running scraper, in the step
\* that follows a download_image call that returned Success or Skipped.
C3_CountWithinQuota ==
    [][\A n \in 1..Len(scrapers_to_run) :
           /\ max_wallpapers > 0 =>
                  /\ 0 <= downloaded_count[n] /\ downloaded_count[n] <= max_wallpapers
                  /\ 0 <= downloaded_count'[n] /\ downloaded_count'[n] <= max_wallpapers
           /\ downloaded_count'[n] # downloaded_count[n] =>
                  /\ downloaded_count'[n] = downloaded_count[n] + 1
                  /\ n = i
                  /\ pc = "downloaded"
                  /\ outcome \in {"Success", "Skipped"}]_vars

C3_Witness ==
    /\ pc = "delay2"
    /\ max_wallpapers = MaxQuota
    /\ count = max_wallpapers
    /\ fresh >= 1

\* the GETs of the current fetch_html call
Gets(t) == {j \in 1..Len(t) : t[j].ev \in {"fail", "ok"}}

\* C4: when every GET of a fetch_html call failed, the call made exactly retries
\* attempts and returned None; no call makes more than retries attempts.
C4_ExactlyRetriesAttempts ==
    /\ Cardinality(Gets(trace)) <= retries
    /\ (pc = "fetched" /\ \A j \in Gets(trace) : trace[j].ev = "fail") =>
           /\ Cardinality(Gets(trace)) = retries
           /\ result = None

C4_Witness ==
    /\ pc = "fetched"
    /\ retries = DefaultRetries
    /\ result = None
    /\ Cardinality(Gets(trace)) = DefaultRetries

\* C5: within one fetch_html call the failed attempt i is followed by a sleep of
\* 2^i seconds and then attempt i+1 exactly when i is not the last attempt, the
\* last attempt is followed by nothing, and a successful attempt ends the call.
C5_BackoffOrder ==
    \A j \in 1..Len(trace) :
        /\ trace[j].ev = "fail" =>
               IF trace[j].n < retries - 1
               THEN /\ j < Len(trace)
                    /\ trace[j + 1] = [ev |-> "sleep", n |-> 2 ^ trace[j].n]
               ELSE j = Len(trace)
        /\ trace[j].ev = "sleep" =>
               /\ j > 1
               /\ trace[j - 1].ev = "fail"
               /\ j < Len(trace) =>
                      /\ trace[j + 1].ev \in {"fail", "ok"}
                      /\ trace[j + 1].n = trace[j - 1].n + 1
        /\ trace[j].ev = "ok" => j = Len(trace) /\ pc = "fetched"
        /\ j = 1 => trace[j].ev \in {"fail", "ok"} /\ trace[j].n = 0

C5_Witness ==
    /\ pc = "fetched"
    /\ Len(trace) = 5
    /\ trace[4] = [ev |-> "sleep", n |-> 2]
    /\ trace[5] = [ev |-> "ok", n |-> 2]

\* C6: _polite_delay is invoked between any two consecutive network operations
\* of a session: no operation starts while the last thing the session did
\* against the site was a GET.
C6_DelayBetweenOperations == AboutToStartOp => gap # "net"

\* C7: whenever no download_image call is in progress every file a call created
\* holds the whole body; after Failed the file is gone, after Success it is whole.
C7_FilesComplete ==
    /\ ~Downloading =>
           \A s \in SiteSet : \A f \in FileNames : disk[s][f] # "partial"
    /\ (pc = "downloaded" /\ outcome = "Failed") => disk[site][save_path] = "absent"
    /\ (pc = "downloaded" /\ outcome = "Success") => disk[site][save_path] = "complete"

C7_Witness ==
    /\ pc = "downloaded"
    /\ outcome = "Failed"
    /\ written >= 1
    /\ written < total
    /\ disk[site][save_path] = "absent"

\* a regular file of that name is in the folder of site s
FileThere(s, f) == f # <<>> /\ disk[s][f] # "absent"

\* C8: when the file computed from the image URL is already in the folder,
\* download_image returns Skipped without touching network or disk; so no image
\* GET is ever issued for a file that is on disk, left by an earlier run or not.
C8_ExistingFileSkipped ==
    [][/\ (pc = "download" /\ FileThere(site, Filename(site, img_url))) =>
              /\ pc' = "downloaded"
              /\ outcome' = "Skipped"
              /\ ret'
              /\ UNCHANGED <<gap, disk>>
       /\ pc' = "dl_get" => ~FileThere(site, save_path')]_vars

C8_Witness ==
    /\ pc = "downloaded"
    /\ outcome = "Skipped"
    /\ FileThere(site, Filename(site, img_url))
    /\ disk[site][Filename(site, img_url)] = "old"

\* C9: a download that is Skipped because the file exists still adds 1 to
\* downloaded_count.
C9_SkipCounts ==
    [][(pc = "downloaded" /\ outcome = "Skipped") =>
           downloaded_count'[i] = downloaded_count[i] + 1]_vars

C9_Witness ==
    /\ pc = "delay2"
    /\ count = 2
    /\ fresh = 0
    /\ \A f \in FileNames : disk[site][f] \in {"old", "absent"}

\* C10: every run, however it ends, reports a final count, and that count is the
\* number of images the run downloaded.
C10_ReportsDownloads == pc \in {"returned", "raised"} => reported = fresh

\* C11: the crawl loop is left (other than by an exception) exactly when the quota
\* is reached at the while test, the listing fetch returned nothing, the listing
\* page lists no item, or the next-page lookup gave no link; each of the four ends
\* it, and after a page without items the loop ends at once: no next-page lookup,
\* no further GET, and run() returns.
C11_LoopEnds ==
    [][/\ (pc # "complete" /\ pc' = "complete") =>
              \/ pc = "while" /\ count >= max_wallpapers
              \/ pc = "fetched" /\ caller = "listing" /\ ~Truthy(result)
              \/ pc = "fetched" /\ caller = "listing" /\ Truthy(result)
                     /\ wallpaper_links' = <<>>
              \/ pc = "paginate" /\ next_link'.kind \in {"none", "nohref"}
       /\ (pc = "while" /\ count >= max_wallpapers) => pc' = "complete"
       /\ (pc = "fetched" /\ caller = "listing" /\ ~Truthy(result)) => pc' = "complete"
       /\ (pc = "fetched" /\ caller = "listing" /\ Truthy(result)
               /\ wallpaper_links' = <<>> /\ pc' # "raised") =>
              /\ pc' = "complete"
              /\ UNCHANGED <<current_page_url, next_link, visited, downloaded_count>>
       /\ (pc = "paginate" /\ next_link'.kind \in {"none", "nohref"}) => pc' = "complete"
       /\ pc = "complete" => pc' = "returned" /\ UNCHANGED <<gap, current_page_url>>]_vars

\* the second listing page had no item: the loop is over with the quota not reached
C11_Witness ==
    /\ pc = "complete"
    /\ current_page_url = 2
    /\ page_html = Text
    /\ wallpaper_links = <<>>
    /\ gap = "net"
    /\ count < max_wallpapers

\* C12: the page cursor never takes a value it held earlier in the session, so no
\* listing page is fetched twice.
C12_CursorForwardOnly ==
    [][(pc = "paginate" /\ pc' = "while") => current_page_url' \notin visited]_vars

\* C13 (as stated): a fetch_html call that returned None after its retries ends the
\* session, for a listing page and for a detail page alike.
C13_FetchFailureEndsSession ==
    [][(pc = "fetched" /\ result = None) => pc' = "complete"]_vars

\* C13 (amended): no fetch_html call that returned None raises.  After a listing
\* page the session ends; after a detail page only that item is skipped: no
\* download, count and files unchanged, and the for loop goes on with the links left.
C13_FetchFailure ==
    [][(pc = "fetched" /\ result = None) =>
           /\ pc' # "raised"
           /\ caller = "listing" => pc' = "complete"
           /\ caller = "detail" =>
                  /\ pc' = "delay2"
                  /\ img_url' = NoUrl
                  /\ UNCHANGED <<downloaded_count, disk, wallpaper_links,
                                 current_page_url>>]_vars

\* a detail fetch used up its three attempts while links of the page are left
C13_Witness ==
    /\ pc = "fetched"
    /\ caller = "detail"
    /\ result = None
    /\ retries = DefaultRetries
    /\ Cardinality(Gets(trace)) = retries
    /\ wallpaper_links # <<>>
    /\ count < max_wallpapers

\* C14: when the fetched detail page yields no image URL the item is skipped: no
\* download_image call and no image GET for it, count and files unchanged, and
\* the for loop goes on with the links left on the same page.
C14_UnresolvedSkipped ==
    [][/\ (pc = "fetched" /\ caller = "detail" /\ Truthy(result) /\ img_url' = NoUrl) =>
              /\ pc' = "delay2"
              /\ UNCHANGED <<downloaded_count, disk, gap, wallpaper_links,
                             current_page_url>>
       /\ (pc = "delay2" /\ img_url = NoUrl) =>
              /\ pc' = "for"
              /\ UNCHANGED <<downloaded_count, disk, wallpaper_links, current_page_url>>
       /\ pc' \in {"download", "dl_get"} => img_url' # NoUrl]_vars

\* a detail page was fetched while links of the listing page are left
C14_Witness ==
    /\ pc = "fetched"
    /\ caller = "detail"
    /\ Truthy(result)
    /\ wallpaper_links # <<>>
    /\ count < max_wallpapers
    /\ ENABLED (DetailFetched /\ img_url' = NoUrl)

\* C15: a download_image call issues one GET; when it fails it returns False (Failed)
\* without raising, the count is unchanged and the for loop goes on with the links
\* left on the page.
C15_FailedDownload ==
    [][/\ pc = "dl_get" => pc' \in {"dl_stream", "downloaded"}
       /\ pc = "dl_stream" => pc' \in {"dl_stream", "downloaded"}
       /\ pc' = "dl_get" => pc = "download"
       /\ (pc = "downloaded" /\ outcome = "Failed") =>
              /\ ~ret
              /\ pc' = "delay2"
              /\ UNCHANGED <<downloaded_count, wallpaper_links, current_page_url>>
       /\ (pc = "delay2" /\ img_url # NoUrl) =>
              /\ pc' = "for"
              /\ UNCHANGED <<downloaded_count, wallpaper_links, current_page_url>>]_vars

\* a download failed while links of the page are left and the quota is not reached
C15_Witness ==
    /\ pc = "downloaded"
    /\ outcome = "Failed"
    /\ wallpaper_links # <<>>
    /\ count < max_wallpapers

\* the file download_image writes for item j of the scenario
ScenarioFile(j) == Filename("wallhaven", ScenarioImg(j))

\* C16: in the scenario only page 1 is ever fetched, items 4 and 5 are never taken
\* from the list of links, files are written in listing order, and run() returns
\* with exactly the images of items 1, 2 and 3 downloaded, whole, into
\* downloads/wallhaven/anime.
C16_QuotaScenario ==
    /\ (pc = "fetch_html" /\ caller = "listing") => current_page_url = 1
    /\ page_html = Text =>
           /\ Len(wallpaper_links) >= 2
           /\ SubSeq(wallpaper_links, Len(wallpaper_links) - 1, Len(wallpaper_links))
                  = <<4, 5>>
    /\ \A j \in 4..5 : disk["wallhaven"][ScenarioFile(j)] = "absent"
    /\ \A j \in 2..3 : disk["wallhaven"][ScenarioFile(j)] # "absent" =>
           disk["wallhaven"][ScenarioFile(j - 1)] = "complete"
    /\ pc = "returned" =>
           /\ count = 3
           /\ fresh = 3
           /\ \A j \in 1..3 : disk["wallhaven"][ScenarioFile(j)] = "complete"
           /\ save_dir = [root |-> "downloads", site |-> "wallhaven",
                          folder |-> <<"a", "n", "i", "m", "e">>]

\* run() returned with three images downloaded and the cursor moved to page 2
C16_Witness ==
    /\ pc = "returned"
    /\ fresh = 3
    /\ current_page_url = 2
    /\ wallpaper_links = <<4, 5>>

\* C17: an exception raised inside run() is caught by main's loop: main goes on to
\* the next scraper with every file and count as they were, every scraper is
\* run once, in the order of scrapers_to_run, and main exits only after all of them.
C17_ExceptionCaught ==
    [][/\ pc = "raised" =>
              /\ pc' = "main"
              /\ i' = i + 1
              /\ UNCHANGED <<disk, downloaded_count, ran>>
       /\ (pc = "main" /\ i <= Len(scrapers_to_run)) =>
              /\ pc' = "run"
              /\ ran' = Append(ran, scrapers_to_run[i])
       /\ ran' = SubSeq(scrapers_to_run, 1, Len(ran'))
       /\ pc' = "exit" => ran' = scrapers_to_run]_vars

\* all scrapers: the second one raised after the first one had downloaded a file,
\* and the third is still to run
C17_Witness ==
    /\ choice = "4"
    /\ pc = "raised"
    /\ i = 2
    /\ ran = <<"wallhere", "wallhaven">>
    /\ \E f \in FileNames : disk["wallhere"][f] = "complete"

\* the next-page lookups an adapter makes, in order
Strategies(s) == IF s = "wallhaven" THEN {1} ELSE {1, 2}

\* C18: when a strategy of the chain finds an anchor that carries an href, the
\* next-page lookup returns the anchor of the first such strategy, whatever the
\* strategies before it found.
C18_NextPageFallback ==
    (fn = "next_link" /\ pc = "called") =>
        LET found == {n \in Strategies(site) : arg[n].kind \in {"href", "bad"}}
        IN found # {} => out = arg[CHOOSE n \in found : \A m \in found : n <= m]

\* C19: WallHere's get_image_url returns the href of the current-page-photo anchor
\* when it has one, otherwise the contentUrl of the JSON-LD script when it has one,
\* and None exactly when neither is there; a JSON-LD script that is no JSON gives
\* None, and the function does not raise.
C19_WallHereFallback ==
    /\ fn = "get_image_url" => pc # "raised"
    /\ (fn = "get_image_url" /\ pc = "called" /\ site = "wallhere") =>
           /\ arg.tag.kind = "url" => out = arg.tag.url
           /\ (arg.tag.kind # "url" /\ arg.json_ld.kind = "url") => out = arg.json_ld.url
           /\ out = NoUrl <=> (arg.tag.kind # "url" /\ arg.json_ld.kind # "url")
           /\ arg.json_ld.kind = "malformed" =>
                  out = IF arg.tag.kind = "url" THEN arg.tag.url ELSE NoUrl

\* the anchor has no href and the JSON-LD script gives the image URL
C19_Witness ==
    /\ fn = "get_image_url"
    /\ pc = "called"
    /\ site = "wallhere"
    /\ arg.tag.kind = "noattr"
    /\ arg.json_ld.kind = "url"
    /\ out = arg.json_ld.url
    /\ out # NoUrl

\* the item references of a page, made absolute, in document order
References(anchors) ==
    LET with == SelectSeq(anchors, LAMBDA h : h.form # "empty")
    IN [n \in 1..Len(with) |-> with[n].id]

\* position of the first occurrence of x in the sequence q
FirstAt(q, x) == CHOOSE n \in 1..Len(q) : q[n] = x /\ \A m \in 1..(n - 1) : q[m] # x

\* C20: get_wallpaper_links returns every item reference of the page, each once, in
\* the order of first occurrence; relative and absolute hrefs of one item are one
\* reference; and the result depends on the page alone.
C20_DistinctInOrder ==
    (fn = "get_wallpaper_links" /\ pc = "called") =>
        LET refs == References(arg)
        IN /\ {out[n] : n \in 1..Len(out)} = {refs[n] : n \in 1..Len(refs)}
           /\ \A a, b \in 1..Len(out) : a < b =>
                  /\ out[a] # out[b]
                  /\ FirstAt(refs, out[a]) < FirstAt(refs, out[b])

\* item 1 is listed by a relative and, after item 2, by an absolute href
C20_Witness ==
    /\ fn = "get_wallpaper_links"
    /\ pc = "called"
    /\ Len(arg) = 3
    /\ arg[1] = [id |-> 1, form |-> "rel"]
    /\ arg[2].id = 2
    /\ arg[3] = [id |-> 1, form |-> "abs"]
    /\ out = <<1, 2>>

\* C21: for every scraper, when the base name of the file named by an image URL is
\* longer than 64 characters, the file name computed is a base of at most 64
\* characters, followed or not by the ellipsis, followed by the extension.
C21_Truncation ==
    (fn = "filename" /\ pc = "called") =>
        LET clean == Sanitize(BeforeQuery(Basename(arg)))
            name == SubSeq(clean, 1, SplitextAt(clean) - 1)
            ext == SubSeq(clean, SplitextAt(clean), Len(clean))
            k == Len(out) - Len(ext)
            front == SubSeq(out, 1, k)
            base == IF k >= 3 /\ SubSeq(front, k - 2, k) = Ellipsis
                    THEN SubSeq(front, 1, k - 3) ELSE front
        IN Len(name) > DefaultMaxLength =>
               /\ SubSeq(out, k + 1, Len(out)) = ext
               /\ Len(base) <= DefaultMaxLength

\* the explicit query terms a start URL carries (q of the search URLs of WallHere and
\* WallHaven, term of the search URLs of WallpaperCat)
QueryTerms(url) ==
    {QueryValue(UrlQuery(url), key) : key \in {<<"q">>, <<"t", "e", "r", "m">>}} \ {<<>>}

\* the last path segment of a start URL, without -wallpapers for WallpaperCat
LastSegment(s, url) ==
    LET segments == Split(Strip(UrlPath(url), "/"), "/")
        last == segments[Len(segments)]
    IN IF s = "wallpapercat" THEN RemoveAll(last, WallpapersSuffix) ELSE last

\* C22: the destination folder is downloads/<site>/<name>, where <name> is the
\* sanitized query term of the start URL when it carries one and the last path
\* segment (the default name when that is empty) otherwise, for every start URL
\* main builds or is given; the site component is the scraper's own.
C22_FolderNaming ==
    (fn = "get_save_path" /\ pc = "called") =>
        /\ out.root = "downloads"
        /\ out.site = site
        /\ IF QueryTerms(arg) # {}
           THEN out.folder \in {RemoveIllegal(term) : term \in QueryTerms(arg)}
           ELSE out.folder \in {LastSegment(site, arg), WallpapersDefault} \ {<<>>}

\* C23: download_image changes no file that existed before the call. A file found
\* at the destination path makes the call return before anything is written, so
\* the file the call writes and the file its failure cleanup removes are one file,
\* absent when the call began; every other file, old or downloaded earlier in the
\* session, is left as it is.
C23_Frame ==
    [][/\ pc' = "dl_get" => disk'[site'][save_path'] = "absent"
       /\ \A s \in DOMAIN disk : \A f \in DOMAIN disk[s] :
              /\ disk[s][f] = "old" => disk'[s][f] = "old"
              /\ disk'[s][f] # disk[s][f] =>
                     /\ pc \in {"dl_get", "dl_stream"}
                     /\ s = site
                     /\ f = save_path]_vars

\* a call that wrote a part of its file failed and removed it, next to an old file
C23_Witness ==
    /\ pc = "downloaded"
    /\ outcome = "Failed"
    /\ written >= 1
    /\ disk[site][save_path] = "absent"
    /\ \E f \in FileNames : disk[site][f] = "old"

\* C24: whenever download_image returns True, a complete file named by the
\* sanitized base name of the image URL is in the destination folder, also when
\* the path of the image URL ends in "/".
C24_TrueMeansFile ==
    (pc = "downloaded" /\ ret) =>
        /\ FileThere(site, Filename(site, img_url))
        /\ disk[site][Filename(site, img_url)] \in {"old", "complete"}

====
